---------------------------- MODULE Spec2Model ----------------------------
(***************************************************************************)
(* Generalized Ramsey numbers and extremal graphs (GraphR):                *)
(*   genramsey.py      predicates is_independent / is_clique, the f-set    *)
(*                     oracle has_fset / has_fset_with_last and the search *)
(*                     engine extremals                                    *)
(*   dividedramsey.py  k-divided predicates and find_extremals             *)
(*   sparseramsey.py   k-sparse predicates and find_extremals              *)
(*                                                                         *)
(* A graph of order n is a sequence of n adjacency sequences; the vertices *)
(* are 0 .. n-1 as in the source, so the adjacency sequence of vertex v is *)
(* g[v+1].  A vertex set is an ascending sequence of vertices.             *)
(***************************************************************************)
EXTENDS Integers, Sequences, FiniteSets, TLC

VARIABLES
    pc,         \* position of the search: "idle", "loop", "done", "failed"
    entry,      \* entry point of the call: "divided", "sparse", "gen"
    args,       \* the arguments the entry point was called with
    f1, f2,     \* the two predicates, as [name, k]
    b1, b2,     \* the two target sizes
    printflag,  \* whether progress lines are printed
    n,          \* extremals: the loop counter n (order being computed)
    gs,         \* extremals: the current list of counterexample graphs
    oldgs,      \* extremals: the previous list of counterexample graphs
    result,     \* the returned pair <<number, graphs>>, <<>> before the return
    out,        \* the lines printed so far
    pg,         \* oracle workbench: the graph under test
    parent,     \* oracle workbench: the graph pg was extended from
    call,       \* oracle workbench: the last call made on pg and its value
    heap,       \* list objects: heap[a] is the adjacency list at address a
    oldrefs,    \* the list old, each graph as the addresses of its lists
    newrefs,    \* the graphs yielded so far for order n, as addresses
    newvals,    \* the graphs yielded so far for order n, as they were yielded
    ip, iv,     \* position of the loops "for oldg in old", "for vset in ..."
    cand        \* the candidate graph built last, its parent and its vset

vars == <<pc, entry, args, f1, f2, b1, b2, printflag, n, gs, oldgs, result, out,
          pg, parent, call, heap, oldrefs, newrefs, newvals, ip, iv, cand>>

engineVars == <<pc, entry, args, f1, f2, b1, b2, printflag, n, gs, oldgs,
                result, out>>
benchVars == <<pg, parent, call>>
refVars == <<heap, oldrefs, newrefs, newvals, ip, iv, cand>>

-----------------------------------------------------------------------------
(* Bounds of the model *)

\* target sizes a, b of a search satisfy a + b <= MaxSum
MaxSum == 6
\* the shape parameter k of the k-divided and k-sparse predicates is <= MaxK
MaxK == 2
\* the search loop is followed while n <= MaxOrder ...
MaxOrder == 6
\* ... and while the list it extends has at most MaxFrontier graphs
MaxFrontier == 3
\* the workbench graphs have at most MaxN vertices
MaxN == 4

-----------------------------------------------------------------------------
(* Python sequences and sets *)

\* Python's "x in s" for a list or tuple s
InSeq(x, s) == \E i \in 1..Len(s) : s[i] = x

\* the set of items of a list
Items(s) == {s[i] : i \in 1..Len(s)}

Min(S) == CHOOSE x \in S : \A y \in S : x <= y

\* the ascending sequence of the members of a finite set of integers
RECURSIVE SortedSeq(_)
SortedSeq(S) == IF S = {} THEN <<>>
                ELSE <<Min(S)>> \o SortedSeq(S \ {Min(S)})

\* range(m) / xrange(m)
Range(m) == 0..(m - 1)


-----------------------------------------------------------------------------
(* genramsey.py: predicates *)

\* is_independent with "if x in s" left out: any neighbour counts
is_independent_any_neighbour(g, s) ==
    \A i \in 1..Len(s) : Len(g[s[i] + 1]) = 0

\* for v in s: for x in g[v]: if x in s: return False
is_independent(g, s) ==
    \A i \in 1..Len(s) :
        \A j \in 1..Len(g[s[i] + 1]) : ~InSeq(g[s[i] + 1][j], s)

\* is_clique with "x != v" left out
is_clique_self(g, s) ==
    \A i \in 1..Len(s) :
        \A j \in 1..Len(s) : InSeq(s[j], g[s[i] + 1])

\* for v in s: for x in s: if x != v and x not in g[v]: return False
is_clique(g, s) ==
    \A i \in 1..Len(s) :
        \A j \in 1..Len(s) :
            ~(s[j] # s[i] /\ ~InSeq(s[j], g[s[i] + 1]))

-----------------------------------------------------------------------------
(* sparseramsey.py: k-sparse predicates *)

\* is_k_sparse_inner with "d >= k" for "d > k"
RECURSIVE is_k_sparse_inner_ge(_, _, _, _, _, _)
is_k_sparse_inner_ge(k, g, s, v, j, d) ==
    IF j > Len(g[v + 1]) THEN TRUE
    ELSE IF InSeq(g[v + 1][j], s)
         THEN IF d + 1 >= k THEN FALSE
              ELSE is_k_sparse_inner_ge(k, g, s, v, j + 1, d + 1)
         ELSE is_k_sparse_inner_ge(k, g, s, v, j + 1, d)

\* is_k_sparse_inner with "if x in s" left out
RECURSIVE is_k_sparse_inner_all(_, _, _, _, _, _)
is_k_sparse_inner_all(k, g, s, v, j, d) ==
    IF j > Len(g[v + 1]) THEN TRUE
    ELSE IF d + 1 > k THEN FALSE
         ELSE is_k_sparse_inner_all(k, g, s, v, j + 1, d + 1)

\* the loop "for x in g[v]" of is_k_sparse from position j on, with d
\* neighbours counted so far: FALSE iff it reaches "return False"
RECURSIVE is_k_sparse_inner(_, _, _, _, _, _)
is_k_sparse_inner(k, g, s, v, j, d) ==
    IF j > Len(g[v + 1]) THEN TRUE
    ELSE IF InSeq(g[v + 1][j], s)
         THEN IF d + 1 > k THEN FALSE
              ELSE is_k_sparse_inner(k, g, s, v, j + 1, d + 1)
         ELSE is_k_sparse_inner(k, g, s, v, j + 1, d)

is_k_sparse(k, g, s) ==
    \A i \in 1..Len(s) : is_k_sparse_inner(k, g, s, s[i], 1, 0)

\* is_k_sparse_compl_inner with "x != v" left out
RECURSIVE is_k_sparse_compl_inner_self(_, _, _, _, _, _)
is_k_sparse_compl_inner_self(k, g, s, v, j, d) ==
    IF j > Len(s) THEN TRUE
    ELSE IF ~InSeq(s[j], g[v + 1])
         THEN IF d + 1 > k THEN FALSE
              ELSE is_k_sparse_compl_inner_self(k, g, s, v, j + 1, d + 1)
         ELSE is_k_sparse_compl_inner_self(k, g, s, v, j + 1, d)

\* the loop "for x in s" of is_k_sparse_compl from position j on
RECURSIVE is_k_sparse_compl_inner(_, _, _, _, _, _)
is_k_sparse_compl_inner(k, g, s, v, j, d) ==
    IF j > Len(s) THEN TRUE
    ELSE IF s[j] # v /\ ~InSeq(s[j], g[v + 1])
         THEN IF d + 1 > k THEN FALSE
              ELSE is_k_sparse_compl_inner(k, g, s, v, j + 1, d + 1)
         ELSE is_k_sparse_compl_inner(k, g, s, v, j + 1, d)

is_k_sparse_compl(k, g, s) ==
    \A i \in 1..Len(s) : is_k_sparse_compl_inner(k, g, s, s[i], 1, 0)

-----------------------------------------------------------------------------
(* dividedramsey.py: k-divided predicates.  The search state st is         *)
(* [pushed, stack, compsize, ok]; ok = FALSE records "return False".       *)

\* is_k_divided_for with "compsize > k" for "compsize >= k"
RECURSIVE is_k_divided_for_gt(_, _, _, _, _, _)
is_k_divided_for_gt(k, g, s, x, j, st) ==
    IF j > Len(s) THEN st
    ELSE LET y == s[j] IN
         IF st.pushed[y + 1] \/ ~InSeq(y, g[x + 1])
         THEN is_k_divided_for_gt(k, g, s, x, j + 1, st)
         ELSE IF st.compsize > k
              THEN [st EXCEPT !.ok = FALSE]
              ELSE is_k_divided_for_gt(k, g, s, x, j + 1,
                       [st EXCEPT !.compsize = @ + 1,
                                  !.stack = Append(@, y),
                                  !.pushed[y + 1] = TRUE])

\* the loop "for y in s" of is_k_divided from position j on, for popped x
RECURSIVE is_k_divided_for(_, _, _, _, _, _)
is_k_divided_for(k, g, s, x, j, st) ==
    IF j > Len(s) THEN st
    ELSE LET y == s[j] IN
         IF st.pushed[y + 1] \/ ~InSeq(y, g[x + 1])
         THEN is_k_divided_for(k, g, s, x, j + 1, st)
         ELSE IF st.compsize >= k
              THEN [st EXCEPT !.ok = FALSE]
              ELSE is_k_divided_for(k, g, s, x, j + 1,
                       [st EXCEPT !.compsize = @ + 1,
                                  !.stack = Append(@, y),
                                  !.pushed[y + 1] = TRUE])

\* the loop "while stack"
RECURSIVE is_k_divided_while(_, _, _, _)
is_k_divided_while(k, g, s, st) ==
    IF ~st.ok \/ st.stack = <<>> THEN st
    ELSE LET x == st.stack[Len(st.stack)]
             popped == [st EXCEPT !.stack = SubSeq(@, 1, Len(@) - 1)]
         IN  is_k_divided_while(k, g, s, is_k_divided_for(k, g, s, x, 1, popped))

\* the loop "for v in s" from position i on
RECURSIVE is_k_divided_outer(_, _, _, _, _)
is_k_divided_outer(k, g, s, i, pushed) ==
    IF i > Len(s) THEN TRUE
    ELSE LET v == s[i] IN
         IF pushed[v + 1] THEN is_k_divided_outer(k, g, s, i + 1, pushed)
         ELSE LET st == is_k_divided_while(k, g, s,
                            [pushed   |-> [pushed EXCEPT ![v + 1] = TRUE],
                             stack    |-> <<v>>,
                             compsize |-> 1,
                             ok       |-> TRUE])
              IN  IF ~st.ok THEN FALSE
                  ELSE is_k_divided_outer(k, g, s, i + 1, st.pushed)

is_k_divided(k, g, s) ==
    is_k_divided_outer(k, g, s, 1, [i \in 1..Len(g) |-> FALSE])

\* the loop "for y in s" of is_k_divided_compl from position j on
RECURSIVE is_k_divided_compl_for(_, _, _, _, _, _)
is_k_divided_compl_for(k, g, s, x, j, st) ==
    IF j > Len(s) THEN st
    ELSE LET y == s[j] IN
         IF st.pushed[y + 1] \/ InSeq(y, g[x + 1])
         THEN is_k_divided_compl_for(k, g, s, x, j + 1, st)
         ELSE IF st.compsize >= k
              THEN [st EXCEPT !.ok = FALSE]
              ELSE is_k_divided_compl_for(k, g, s, x, j + 1,
                       [st EXCEPT !.compsize = @ + 1,
                                  !.stack = Append(@, y),
                                  !.pushed[y + 1] = TRUE])

RECURSIVE is_k_divided_compl_while(_, _, _, _)
is_k_divided_compl_while(k, g, s, st) ==
    IF ~st.ok \/ st.stack = <<>> THEN st
    ELSE LET x == st.stack[Len(st.stack)]
             popped == [st EXCEPT !.stack = SubSeq(@, 1, Len(@) - 1)]
         IN  is_k_divided_compl_while(k, g, s,
                 is_k_divided_compl_for(k, g, s, x, 1, popped))

RECURSIVE is_k_divided_compl_outer(_, _, _, _, _)
is_k_divided_compl_outer(k, g, s, i, pushed) ==
    IF i > Len(s) THEN TRUE
    ELSE LET v == s[i] IN
         IF pushed[v + 1] THEN is_k_divided_compl_outer(k, g, s, i + 1, pushed)
         ELSE LET st == is_k_divided_compl_while(k, g, s,
                            [pushed   |-> [pushed EXCEPT ![v + 1] = TRUE],
                             stack    |-> <<v>>,
                             compsize |-> 1,
                             ok       |-> TRUE])
              IN  IF ~st.ok THEN FALSE
                  ELSE is_k_divided_compl_outer(k, g, s, i + 1, st.pushed)

is_k_divided_compl(k, g, s) ==
    is_k_divided_compl_outer(k, g, s, 1, [i \in 1..Len(g) |-> FALSE])

-----------------------------------------------------------------------------
(* Predicates as values: the function objects handed to the engine *)

make_k_divided_func(k) == [name |-> "is_k_divided", k |-> k]
make_k_divided_compl_func(k) == [name |-> "is_k_divided_compl", k |-> k]
make_k_sparse_func(k) == [name |-> "is_k_sparse", k |-> k]
make_k_sparse_compl_func(k) == [name |-> "is_k_sparse_compl", k |-> k]
IsIndependentFunc == [name |-> "is_independent", k |-> 0]
IsCliqueFunc == [name |-> "is_clique", k |-> 0]
NoFunc == [name |-> "none", k |-> 0]

\* the call f(g, s)
Apply(f, g, s) ==
    CASE f.name = "is_independent"     -> is_independent(g, s)
      [] f.name = "is_clique"          -> is_clique(g, s)
      [] f.name = "is_k_divided"       -> is_k_divided(f.k, g, s)
      [] f.name = "is_k_divided_compl" -> is_k_divided_compl(f.k, g, s)
      [] f.name = "is_k_sparse"        -> is_k_sparse(f.k, g, s)
      [] f.name = "is_k_sparse_compl"  -> is_k_sparse_compl(f.k, g, s)

-----------------------------------------------------------------------------
(* genramsey.py: checking for f-sets *)

\* itertools.combinations(xrange(m), b) from vertex lo on: the ascending
\* b-tuples over lo .. m-1
RECURSIVE combinations_from(_, _, _)
combinations_from(lo, m, b) ==
    IF b <= 0 THEN {<<>>}
    ELSE UNION {{<<v>> \o c : c \in combinations_from(v + 1, m, b - 1)} :
                   v \in lo..(m - b)}

combinations(m, b) == combinations_from(0, m, b)

\* has_fset with "xrange(n-1)" for "xrange(n)"
has_fset_short(f, b, g) ==
    IF b < 0 THEN FALSE
    ELSE LET m == Len(g) IN
         IF b > m THEN FALSE
         ELSE \E s \in combinations(m - 1, b) : Apply(f, g, s)

\* has_fset with "if b < 1" for "if b < 0"
has_fset_pos(f, b, g) ==
    IF b < 1 THEN FALSE
    ELSE LET m == Len(g) IN
         IF b > m THEN FALSE
         ELSE \E s \in combinations(m, b) : Apply(f, g, s)

has_fset(f, b, g) ==
    IF b < 0 THEN FALSE
    ELSE LET m == Len(g) IN
         IF b > m THEN FALSE
         ELSE \E s \in combinations(m, b) : Apply(f, g, s)

\* has_fset_with_last with "s = ss" for "s = ss + (n-1,)"
has_fset_with_last_nolast(f, b, g) ==
    IF b < 1 THEN FALSE
    ELSE LET m == Len(g) IN
         IF b > m THEN FALSE
         ELSE \E ss \in combinations(m - 1, b - 1) : Apply(f, g, ss)

\* has_fset_with_last with "xrange(n-2)" for "xrange(n-1)"
has_fset_with_last_short(f, b, g) ==
    IF b < 1 THEN FALSE
    ELSE LET m == Len(g) IN
         IF b > m THEN FALSE
         ELSE \E ss \in combinations(m - 2, b - 1) :
                  Apply(f, g, Append(ss, m - 1))

has_fset_with_last(f, b, g) ==
    IF b < 1 THEN FALSE
    ELSE LET m == Len(g) IN
         IF b > m THEN FALSE
         ELSE \E ss \in combinations(m - 1, b - 1) :
                  Apply(f, g, Append(ss, m - 1))

-----------------------------------------------------------------------------
(* isograph: the graph utilities the engine imports *)

\* isograph.graphs(m), used by the engine for m = 0 only: the graphs on the
\* vertices 0 .. m-1, one per set of edges
EdgeSlots(m) == {e \in SUBSET Range(m) : Cardinality(e) = 2}

GraphOfEdges(m, E) ==
    [i \in 1..m |-> SortedSeq({u \in Range(m) : {u, i - 1} \in E})]

AllGraphs(m) == {GraphOfEdges(m, E) : E \in SUBSET EdgeSlots(m)}

RECURSIVE SeqOfSet(_)
SeqOfSet(S) == IF S = {} THEN <<>>
               ELSE LET x == CHOOSE y \in S : TRUE
                    IN  <<x>> \o SeqOfSet(S \ {x})

graphs(m) == SeqOfSet(AllGraphs(m))

\* isograph.powerset(xrange(m)): every subset of 0 .. m-1 as an ascending
\* tuple, the empty and the full one included
RECURSIVE powerset(_)
powerset(m) ==
    IF m = 0 THEN << <<>> >>
    ELSE LET P == powerset(m - 1)
         IN  P \o [i \in 1..Len(P) |-> Append(P[i], m - 1)]

\* p maps the vertices 0 .. Len(p)-1 of g into h, keeping degrees and
\* adjacency: can it be extended to an isomorphism?
RECURSIVE iso_extend(_, _, _)
iso_extend(g, h, p) ==
    IF Len(p) = Len(g) THEN TRUE
    ELSE LET v == Len(p) IN
         \E w \in Range(Len(h)) \ Items(p) :
             /\ Len(g[v + 1]) = Len(h[w + 1])
             /\ \A u \in 0..(v - 1) :
                    InSeq(u, g[v + 1]) <=> InSeq(p[u + 1], h[w + 1])
             /\ iso_extend(g, h, Append(p, w))

\* isograph.isomorphic(g, h)
isomorphic(g, h) == Len(g) = Len(h) /\ iso_extend(g, h, <<>>)

\* isograph.unique_iso(graphs): the first graph met of every isomorphism
\* class, in the order met
RECURSIVE unique_iso_from(_, _, _)
unique_iso_from(graphlist, i, kept) ==
    IF i > Len(graphlist) THEN kept
    ELSE IF \E j \in 1..Len(kept) : isomorphic(graphlist[i], kept[j])
         THEN unique_iso_from(graphlist, i + 1, kept)
         ELSE unique_iso_from(graphlist, i + 1, Append(kept, graphlist[i]))

unique_iso(graphlist) == unique_iso_from(graphlist, 1, <<>>)

-----------------------------------------------------------------------------
(* genramsey.py: finding extremal graphs *)

_counterexamples_zero(pf1, pf2, pb1, pb2) ==
    SelectSeq(graphs(0),
              LAMBDA g : ~has_fset(pf1, pb1, g) /\ ~has_fset(pf2, pb2, g))

\* add_edges with "g[v] = [n-1]" for "g[v] = g[v]+[n-1]"
RECURSIVE add_edges_assign(_, _, _, _)
add_edges_assign(g, vset, i, m) ==
    IF i > Len(vset) THEN g
    ELSE add_edges_assign([g EXCEPT ![vset[i] + 1] = <<m - 1>>], vset, i + 1, m)

\* the loop "for v in vset: g[v] = g[v]+[n-1]" from position i on
RECURSIVE add_edges(_, _, _, _)
add_edges(g, vset, i, m) ==
    IF i > Len(vset) THEN g
    ELSE add_edges([g EXCEPT ![vset[i] + 1] = Append(@, m - 1)], vset, i + 1, m)

\* the candidate graph built from oldg and vset:
\* g = oldg + [list(vset)], then the loop above
candidate(oldg, vset, m) == add_edges(Append(oldg, vset), vset, 1, m)

\* the filter applied to a candidate
survives(pf1, pf2, pb1, pb2, g) ==
    ~has_fset_with_last(pf1, pb1, g) /\ ~has_fset_with_last(pf2, pb2, g)

counterexamples_up_big_list(pf1, pf2, m, pb1, pb2, old) ==
    LET P == powerset(m - 1)
        cands == [idx \in 1..(Len(old) * Len(P)) |->
                     candidate(old[((idx - 1) \div Len(P)) + 1],
                               P[((idx - 1) % Len(P)) + 1], m)]
    IN  SelectSeq(cands, LAMBDA g : survives(pf1, pf2, pb1, pb2, g))

\* _counterexamples_up without the call of unique_iso
_counterexamples_up_big_list_only(pf1, pf2, pb1, pb2, m, old) ==
    counterexamples_up_big_list(pf1, pf2, m, pb1, pb2, old)

_counterexamples_up(pf1, pf2, pb1, pb2, m, old) ==
    unique_iso(counterexamples_up_big_list(pf1, pf2, m, pb1, pb2, old))

Header == <<"Order & number of counterexample graphs:">>

\* what printing line does to the output
Printed(flag, lines, line) == IF flag THEN Append(lines, line) ELSE lines

\* extremals, from its first line to the head of its loop
ExtremalsBegin(e, pf1, pf2, pb1, pb2, flag) ==
    LET gs0 == _counterexamples_zero(pf1, pf2, pb1, pb2)
        howmany == Len(gs0)
        out0 == Printed(flag, Printed(flag, <<>>, Header), <<0, howmany>>)
    IN  /\ entry' = e
        /\ f1' = pf1
        /\ f2' = pf2
        /\ b1' = pb1
        /\ b2' = pb2
        /\ printflag' = flag
        /\ gs' = gs0
        /\ out' = out0
        /\ oldgs' = <<>>
        /\ IF howmany = 0
           THEN pc' = "done" /\ n' = 0 /\ result' = <<0, <<>>>>
           ELSE pc' = "loop" /\ n' = 1 /\ result' = <<>>

\* a failed assertion: the call ends without a result
AssertionFails(e) ==
    /\ pc' = "failed"
    /\ entry' = e
    /\ UNCHANGED <<f1, f2, b1, b2, printflag, n, gs, oldgs, result, out>>

\* the target sizes offered to the entry points
Sizes == {ab \in ((-1)..MaxSum) \X ((-1)..MaxSum) : ab[1] + ab[2] <= MaxSum}

\* dividedramsey.find_extremals(k, a, b, printflag)
DividedFindExtremals(k, a, b, flag) ==
    /\ pc = "idle"
    /\ args' = [k |-> k, a |-> a, b |-> b]
    /\ IF k >= 1 /\ a >= 0 /\ b >= 0
       THEN ExtremalsBegin("divided", make_k_divided_func(k),
                           make_k_divided_compl_func(k), a, b, flag)
       ELSE AssertionFails("divided")
    /\ UNCHANGED benchVars
    /\ UNCHANGED refVars

\* sparseramsey.find_extremals(k, a, b, printflag)
SparseFindExtremals(k, a, b, flag) ==
    /\ pc = "idle"
    /\ args' = [k |-> k, a |-> a, b |-> b]
    /\ IF k >= 0 /\ a >= 0 /\ b >= 0
       THEN ExtremalsBegin("sparse", make_k_sparse_func(k),
                           make_k_sparse_compl_func(k), a, b, flag)
       ELSE AssertionFails("sparse")
    /\ UNCHANGED benchVars
    /\ UNCHANGED refVars

\* genramsey.extremals(is_independent, is_clique, b1, b2, printflag)
GenExtremals(a, b, flag) ==
    /\ pc = "idle"
    /\ args' = [a |-> a, b |-> b]
    /\ ExtremalsBegin("gen", IsIndependentFunc, IsCliqueFunc, a, b, flag)
    /\ UNCHANGED benchVars
    /\ UNCHANGED refVars

\* LevelUp with the line printed after the test of howmany
LevelUp_print_after_test ==
    /\ pc = "loop"
    /\ n <= MaxOrder
    /\ Len(gs) <= MaxFrontier
    /\ LET newgs == _counterexamples_up(f1, f2, b1, b2, n, gs)
           howmany == Len(newgs)
       IN  /\ oldgs' = gs
           /\ gs' = newgs
           /\ IF howmany = 0
              THEN pc' = "done" /\ result' = <<n, gs>> /\ n' = n /\ out' = out
              ELSE /\ pc' = "loop" /\ result' = result /\ n' = n + 1
                   /\ out' = Printed(printflag, out, <<n, howmany>>)
    /\ UNCHANGED <<entry, args, f1, f2, b1, b2, printflag>>
    /\ UNCHANGED benchVars
    /\ UNCHANGED refVars

\* LevelUp with "if howmany == 0" testing the length of the previous list
LevelUp_test_previous ==
    /\ pc = "loop"
    /\ n <= MaxOrder
    /\ Len(gs) <= MaxFrontier
    /\ LET newgs == _counterexamples_up(f1, f2, b1, b2, n, gs)
           howmany == Len(newgs)
       IN  /\ oldgs' = gs
           /\ gs' = newgs
           /\ out' = Printed(printflag, out, <<n, howmany>>)
           /\ IF Len(gs) = 0
              THEN pc' = "done" /\ result' = <<n, gs>> /\ n' = n
              ELSE pc' = "loop" /\ result' = result /\ n' = n + 1
    /\ UNCHANGED <<entry, args, f1, f2, b1, b2, printflag>>
    /\ UNCHANGED benchVars
    /\ UNCHANGED refVars

\* one pass of the loop "for n in itertools.count(1)" of extremals
LevelUp ==
    /\ pc = "loop"
    /\ n <= MaxOrder
    /\ Len(gs) <= MaxFrontier
    /\ LET newgs == _counterexamples_up(f1, f2, b1, b2, n, gs)
           howmany == Len(newgs)
       IN  /\ oldgs' = gs
           /\ gs' = newgs
           /\ out' = Printed(printflag, out, <<n, howmany>>)
           /\ IF howmany = 0
              THEN pc' = "done" /\ result' = <<n, gs>> /\ n' = n
              ELSE pc' = "loop" /\ result' = result /\ n' = n + 1
    /\ UNCHANGED <<entry, args, f1, f2, b1, b2, printflag>>
    /\ UNCHANGED benchVars
    /\ UNCHANGED refVars

InitEngine ==
    /\ pc = "idle"
    /\ entry = "none"
    /\ args = [a |-> 0, b |-> 0]
    /\ f1 = NoFunc
    /\ f2 = NoFunc
    /\ b1 = 0
    /\ b2 = 0
    /\ printflag = FALSE
    /\ n = 0
    /\ gs = <<>>
    /\ oldgs = <<>>
    /\ result = <<>>
    /\ out = <<>>

InitBench ==
    /\ pg = <<>>
    /\ parent = <<>>
    /\ call = [op |-> "none"]

NoCandidate == [g |-> <<>>, p |-> 0, vset |-> <<>>]

InitRefs ==
    /\ heap = <<>>
    /\ oldrefs = <<>>
    /\ newrefs = <<>>
    /\ newvals = <<>>
    /\ ip = 1
    /\ iv = 1
    /\ cand = NoCandidate

Init == InitEngine /\ InitBench /\ InitRefs

Next ==
    \/ \E k \in 0..MaxK, ab \in Sizes, flag \in BOOLEAN :
           DividedFindExtremals(k, ab[1], ab[2], flag)
    \/ \E k \in (-1)..MaxK, ab \in Sizes, flag \in BOOLEAN :
           SparseFindExtremals(k, ab[1], ab[2], flag)
    \/ \E ab \in Sizes, flag \in BOOLEAN :
           GenExtremals(ab[1], ab[2], flag)
    \/ LevelUp

Spec == Init /\ [][Next]_vars

\* what a pass of the loop of extremals does to pc and n: every step of
\* LevelUp is one of these, and in a search no other step is
LoopPass ==
    /\ pc = "loop"
    /\ n <= MaxOrder
    /\ Len(gs) <= MaxFrontier
    /\ \/ pc' = "done" /\ n' = n
       \/ pc' = "loop" /\ n' = n + 1

\* the search goes on: a pass of the loop that can be made is made (the
\* interpreter does not stop between two statements)
FairSpec == Spec /\ WF_<<pc, n>>(LoopPass)

-----------------------------------------------------------------------------
(* The oracle workbench: graphs are built vertex by vertex the way the     *)
(* engine builds its candidates, and one call of a predicate or of an      *)
(* f-set check is made on the graph built.                                 *)

Preds ==
    {IsIndependentFunc, IsCliqueFunc}
    \cup {make_k_divided_func(k) : k \in 1..MaxK}
    \cup {make_k_divided_compl_func(k) : k \in 1..MaxK}
    \cup {make_k_sparse_func(k) : k \in 0..MaxK}
    \cup {make_k_sparse_compl_func(k) : k \in 0..MaxK}

\* the vertex sets of a graph of order m, as ascending tuples
VertexSets(m) == {SortedSeq(S) : S \in SUBSET Range(m)}

\* pg becomes the candidate built from pg and vset
Extend(vset) ==
    /\ call.op = "none"
    /\ Len(pg) < MaxN
    /\ pg' = candidate(pg, vset, Len(pg) + 1)
    /\ parent' = pg
    /\ call' = [op |-> "none"]
    /\ UNCHANGED engineVars
    /\ UNCHANGED refVars

\* the call f(pg, s)
CallPredicate(f, s) ==
    /\ call.op = "none"
    /\ call' = [op |-> "predicate", f |-> f, s |-> s, b |-> Len(s),
                val |-> Apply(f, pg, s)]
    /\ UNCHANGED <<pg, parent>>
    /\ UNCHANGED engineVars
    /\ UNCHANGED refVars

\* the call has_fset(f, b, pg)
CallHasFset(f, b) ==
    /\ call.op = "none"
    /\ call' = [op |-> "has_fset", f |-> f, s |-> <<>>, b |-> b,
                val |-> has_fset(f, b, pg)]
    /\ UNCHANGED <<pg, parent>>
    /\ UNCHANGED engineVars
    /\ UNCHANGED refVars

\* the call has_fset_with_last(f, b, pg)
CallHasFsetWithLast(f, b) ==
    /\ call.op = "none"
    /\ call' = [op |-> "has_fset_with_last", f |-> f, s |-> <<>>, b |-> b,
                val |-> has_fset_with_last(f, b, pg)]
    /\ UNCHANGED <<pg, parent>>
    /\ UNCHANGED engineVars
    /\ UNCHANGED refVars

\* one call is made on a graph: nothing is enabled after it
Fresh == call.op = "none"

ExtendStep ==
    Fresh /\ \E vset \in VertexSets(Len(pg)) : Extend(vset)

PredicateStep ==
    Fresh /\ \E f \in Preds, s \in VertexSets(Len(pg)) : CallPredicate(f, s)

HasFsetStep ==
    Fresh /\ \E f \in Preds, b \in (-1)..(MaxN + 1) : CallHasFset(f, b)

HasFsetWithLastStep ==
    Fresh /\ \E f \in Preds, b \in (-1)..(MaxN + 1) : CallHasFsetWithLast(f, b)

NextBench ==
    \/ ExtendStep
    \/ PredicateStep
    \/ HasFsetStep
    \/ HasFsetWithLastStep

SpecBench == Init /\ [][NextBench]_vars

-----------------------------------------------------------------------------
(* The step from one order to the next with the lists as objects: a graph  *)
(* is a list of addresses of adjacency lists, so that two graphs can share *)
(* an adjacency list and a change of a shared list shows in both.          *)

\* the graph whose adjacency lists are at the addresses g
Deref(h, g) == [v \in 1..Len(g) |-> h[g[v]]]

\* g = oldg + [list(vset)]: a new outer list with the items of oldg and
\* one new adjacency list
concat_new_vertex(h, oldg, vset) ==
    [heap |-> Append(h, vset), g |-> Append(oldg, Len(h) + 1)]

\* g[v] += [n-1]: the list object g[v] itself is extended
rebind_in_place(st, v, m) ==
    [heap |-> [st.heap EXCEPT ![st.g[v + 1]] = Append(@, m - 1)], g |-> st.g]

\* g[v] = g[v]+[n]: the number of the next vertex is put in the list
rebind_next_vertex(st, v, m) ==
    [heap |-> Append(st.heap, Append(st.heap[st.g[v + 1]], m)),
     g |-> [st.g EXCEPT ![v + 1] = Len(st.heap) + 1]]

\* g[v] = g[v]+[n-1]: a new list object is made and put at g[v]
rebind(st, v, m) ==
    [heap |-> Append(st.heap, Append(st.heap[st.g[v + 1]], m - 1)),
     g |-> [st.g EXCEPT ![v + 1] = Len(st.heap) + 1]]

\* the loop "for v in vset"
RECURSIVE add_edges_refs(_, _, _, _)
add_edges_refs(st, vset, i, m) ==
    IF i > Len(vset) THEN st
    ELSE add_edges_refs(rebind(st, vset[i], m), vset, i + 1, m)

\* the candidate graph of order m made from oldg and vset
candidate_refs(h, oldg, vset, m) ==
    add_edges_refs(concat_new_vertex(h, oldg, vset), vset, 1, m)

\* the pairs of predicates extremals is called with
PredPairs ==
    {<<IsIndependentFunc, IsCliqueFunc>>}
    \cup {<<make_k_divided_func(k), make_k_divided_compl_func(k)>> : k \in 1..MaxK}
    \cup {<<make_k_sparse_func(k), make_k_sparse_compl_func(k)>> : k \in 0..MaxK}

\* extremals, from its first line to the head of its loop
ExtremalsRefs(pf1, pf2, a, b) ==
    /\ pc = "idle"
    /\ args' = [a |-> a, b |-> b]
    /\ ExtremalsBegin("gen", pf1, pf2, a, b, FALSE)
    /\ heap' = <<>>
    /\ oldrefs' = [i \in 1..Len(_counterexamples_zero(pf1, pf2, a, b)) |-> <<>>]
    /\ newrefs' = <<>>
    /\ newvals' = <<>>
    /\ ip' = 1
    /\ iv' = 1
    /\ cand' = NoCandidate
    /\ UNCHANGED benchVars

\* one pass of the loop "for vset in isograph.powerset(xrange(n-1))": the
\* candidate is built, tested, and kept if no graph kept is isomorphic
BuildCandidate ==
    /\ pc = "loop"
    /\ n <= MaxOrder
    /\ Len(gs) <= MaxFrontier
    /\ ip <= Len(oldrefs)
    /\ LET P == powerset(n - 1)
           vset == P[iv]
           st == candidate_refs(heap, oldrefs[ip], vset, n)
           g == Deref(st.heap, st.g)
           keep == /\ survives(f1, f2, b1, b2, g)
                   /\ ~\E j \in 1..Len(newrefs) :
                          isomorphic(g, Deref(st.heap, newrefs[j]))
       IN  /\ heap' = st.heap
           /\ cand' = [g |-> st.g, p |-> ip, vset |-> vset]
           /\ newrefs' = IF keep THEN Append(newrefs, st.g) ELSE newrefs
           /\ newvals' = IF keep THEN Append(newvals, g) ELSE newvals
           /\ IF iv < Len(P)
              THEN iv' = iv + 1 /\ ip' = ip
              ELSE iv' = 1 /\ ip' = ip + 1
    /\ UNCHANGED <<oldrefs, engineVars, benchVars>>

\* the end of the loop "for oldg in old": the rest of the pass of the loop
\* of extremals
LevelDone ==
    /\ pc = "loop"
    /\ ip > Len(oldrefs)
    /\ oldgs' = gs
    /\ gs' = newvals
    /\ IF Len(newrefs) = 0
       THEN /\ pc' = "done"
            /\ result' = <<n, [i \in 1..Len(oldrefs) |-> Deref(heap, oldrefs[i])]>>
            /\ n' = n
            /\ UNCHANGED <<oldrefs, newrefs, newvals>>
       ELSE /\ pc' = "loop"
            /\ result' = result
            /\ n' = n + 1
            /\ oldrefs' = newrefs
            /\ newrefs' = <<>>
            /\ newvals' = <<>>
    /\ ip' = 1
    /\ iv' = 1
    /\ cand' = NoCandidate
    /\ UNCHANGED <<heap, entry, args, f1, f2, b1, b2, printflag, out>>
    /\ UNCHANGED benchVars

ExtremalsRefsStep ==
    \E pq \in PredPairs, ab \in {x \in Sizes : x[1] >= 0 /\ x[2] >= 0} :
        ExtremalsRefs(pq[1], pq[2], ab[1], ab[2])

NextRefs ==
    \/ ExtremalsRefsStep
    \/ BuildCandidate
    \/ LevelDone

SpecRefs == Init /\ [][NextRefs]_vars

-----------------------------------------------------------------------------

(* Reference notions the properties are stated with *)

\* u and v are adjacent in g
Edge(g, u, v) == InSeq(v, g[u + 1])

Bijections(m) ==
    {p \in [Range(m) -> Range(m)] :
        \A a, b \in Range(m) : a # b => p[a] # p[b]}

\* g and h are the same graph up to a relabelling of the vertices
SameUpToRelabelling(g, h) ==
    /\ Len(g) = Len(h)
    /\ \E p \in Bijections(Len(g)) :
           \A u, v \in Range(Len(g)) : Edge(g, u, v) <=> Edge(h, p[u], p[v])

\* the two lists hold the same graphs up to isomorphism
SameUpToIso(xs, ys) ==
    /\ Len(xs) = Len(ys)
    /\ \A i \in 1..Len(xs) : \E j \in 1..Len(ys) : SameUpToRelabelling(xs[i], ys[j])
    /\ \A j \in 1..Len(ys) : \E i \in 1..Len(xs) : SameUpToRelabelling(xs[i], ys[j])

\* g is a counterexample graph for pf1, pf2, pb1, pb2, by the full test
IsCounterexampleFor(pf1, pf2, pb1, pb2, g) ==
    ~has_fset(pf1, pb1, g) /\ ~has_fset(pf2, pb2, g)

IsCounterexample(g) == IsCounterexampleFor(f1, f2, b1, b2, g)

\* the search has begun (its parameters are set)
Started == pc \in {"loop", "done"}

\* the order of the graphs the list gs was computed for
CurLevel == IF pc = "done" THEN n ELSE n - 1

-----------------------------------------------------------------------------
(* Properties of the engine, checked under Spec *)

\* C1: extremals returns (num, res) where a counterexample graph exists at
\* every order below num and none at order num, over all graphs of those
\* orders and by the full has_fset test; res holds exactly one graph of
\* every isomorphism class of counterexample graphs of order num-1, and the
\* result is (0, []) when no counterexample of order 0 exists.
C1_ExtremalsContract ==
    pc = "done" =>
        LET num == result[1]
            res == result[2]
        IN  /\ \A m \in 0..(num - 1) :
                   \E E \in SUBSET EdgeSlots(m) :
                       IsCounterexample(GraphOfEdges(m, E))
            /\ \A E \in SUBSET EdgeSlots(num) :
                   ~IsCounterexample(GraphOfEdges(num, E))
            /\ IF num = 0 THEN res = <<>>
               ELSE /\ \A i \in 1..Len(res) :
                           Len(res[i]) = num - 1 /\ IsCounterexample(res[i])
                    /\ \A i, j \in 1..Len(res) :
                           i # j => ~SameUpToRelabelling(res[i], res[j])
                    /\ \A E \in SUBSET EdgeSlots(num - 1) :
                           LET g == GraphOfEdges(num - 1, E)
                           IN  IsCounterexample(g) =>
                                   \E i \in 1..Len(res) :
                                       SameUpToRelabelling(g, res[i])

C1_Witness ==
    /\ pc = "done"
    /\ f1.name = "is_k_sparse"
    /\ result[1] = 6
    /\ Len(result[2]) = 1

\* the 5-cycle of the doctests
C5Graph == <<<<1, 4>>, <<0, 2>>, <<1, 3>>, <<2, 4>>, <<0, 3>>>>

\* the numbers of counterexample graphs of orders 0 .. 6 for sizes (3, 3)
R33Counts == <<1, 1, 2, 2, 3, 1, 0>>

\* the search for independent sets and cliques: extremals called with
\* is_independent, is_clique, or find_extremals of dividedramsey with k = 1
IndependentCliqueRun ==
    /\ Started
    /\ \/ entry = "gen"
       \/ entry = "divided" /\ f1.k = 1

\* C2: with independent set / clique and sizes (3, 3) the lists computed
\* for the orders 0 .. 6 have 1, 1, 2, 2, 3, 1, 0 graphs, and the search
\* returns 6 and a single graph, of order 5, isomorphic to the 5-cycle.
C2_R33 ==
    (IndependentCliqueRun /\ b1 = 3 /\ b2 = 3) =>
        /\ CurLevel \in 0..6
        /\ Len(gs) = R33Counts[CurLevel + 1]
        /\ pc = "done" =>
               /\ result[1] = 6
               /\ Len(result[2]) = 1
               /\ Len(result[2][1]) = 5
               /\ SameUpToRelabelling(result[2][1], C5Graph)

C2_Witness ==
    /\ IndependentCliqueRun /\ b1 = 3 /\ b2 = 3
    /\ entry = "gen"
    /\ pc = "done"
    /\ result[1] = 6

\* the list find_extremals of dividedramsey computes for order m
RECURSIVE DividedLevel(_, _, _, _)
DividedLevel(k, a, b, m) ==
    IF m = 0
    THEN _counterexamples_zero(make_k_divided_func(k),
                               make_k_divided_compl_func(k), a, b)
    ELSE LET old == DividedLevel(k, a, b, m - 1)
         IN  IF old = <<>> THEN <<>>
             ELSE _counterexamples_up(make_k_divided_func(k),
                                      make_k_divided_compl_func(k), a, b, m, old)

\* C3: find_extremals of sparseramsey with k = 0 and find_extremals of
\* dividedramsey with k = 1 compute, for the same sizes, lists of the same
\* length at every order, the same up to isomorphism, and so return the
\* same number and the same extremal graphs up to isomorphism; for (3, 3)
\* the number is 6 and the only extremal graph is the 5-cycle.
C3_SparseZeroIsDividedOne ==
    (Started /\ entry = "sparse" /\ f1.k = 0) =>
        /\ SameUpToIso(gs, DividedLevel(1, b1, b2, CurLevel))
        /\ pc = "done" =>
               /\ DividedLevel(1, b1, b2, CurLevel) = <<>>
               /\ \A m \in 0..(CurLevel - 1) : DividedLevel(1, b1, b2, m) # <<>>
               /\ result[1] > 0 =>
                      SameUpToIso(result[2], DividedLevel(1, b1, b2, result[1] - 1))
               /\ (b1 = 3 /\ b2 = 3) =>
                      /\ result[1] = 6
                      /\ Len(result[2]) = 1
                      /\ SameUpToRelabelling(result[2][1], C5Graph)

C3_Witness ==
    /\ Started /\ entry = "sparse" /\ f1.k = 0
    /\ b1 = 3 /\ b2 = 3
    /\ pc = "done"
    /\ result[1] = 6
    /\ Len(DividedLevel(1, 3, 3, 5)) = 1

\* C10: a search with nonnegative sizes returns (0, []), with an empty list
\* for order 0 and no further list computed, exactly when b1 = 0 or b2 = 0;
\* with b1 >= 1 and b2 >= 1 the list for order 0 is the empty graph alone
\* and the number returned is at least 1.
C10_DegenerateCase ==
    Started =>
        /\ (b1 = 0 \/ b2 = 0) =>
               /\ pc = "done"
               /\ result = <<0, <<>>>>
               /\ n = 0 /\ gs = <<>> /\ oldgs = <<>>
        /\ (b1 >= 1 /\ b2 >= 1) =>
               /\ result # <<0, <<>>>>
               /\ CurLevel = 0 => gs = << <<>> >>
               /\ pc = "done" => result[1] >= 1

C10_Witness ==
    /\ pc = "done"
    /\ entry = "sparse"
    /\ b1 = 0 /\ b2 = 3
    /\ result = <<0, <<>>>>

-----------------------------------------------------------------------------
(* Properties of the predicates and of the f-set checks, checked under     *)
(* SpecBench                                                               *)

\* some set of exactly b vertices of g, drawn from all subsets of the
\* vertices, satisfies f
SomeSubsetOfSize(f, b, g) ==
    \E S \in SUBSET Range(Len(g)) :
        Cardinality(S) = b /\ Apply(f, g, SortedSeq(S))

\* the same, over the subsets that contain the last vertex
SomeSubsetOfSizeWithLast(f, b, g) ==
    \E S \in SUBSET Range(Len(g)) :
        /\ Cardinality(S) = b
        /\ (Len(g) - 1) \in S
        /\ Apply(f, g, SortedSeq(S))

\* C4: has_fset(f, b, g) is False when b < 0 or b > order(g), and otherwise
\* True iff some set of b vertices satisfies f (the value of f on the empty
\* set when b = 0), as found by going through all subsets of the vertices.
C4_HasFset ==
    call.op = "has_fset" =>
        /\ (call.b < 0 \/ call.b > Len(pg)) => ~call.val
        /\ (0 <= call.b /\ call.b <= Len(pg)) =>
               call.val = SomeSubsetOfSize(call.f, call.b, pg)
        /\ call.b = 0 => call.val = Apply(call.f, pg, <<>>)

C4_Witness ==
    /\ call.op = "has_fset"
    /\ call.f = make_k_divided_func(2)
    /\ Len(pg) = 4
    /\ call.b = 3
    /\ call.val
    /\ ~Apply(call.f, pg, <<0, 1, 2>>)

\* C5: has_fset_with_last(f, b, g) is False when b < 1 or b > order(g) (so
\* for every b on the graph of order 0), and otherwise True iff some set of
\* b vertices that contains the last vertex satisfies f; when it is True,
\* has_fset(f, b, g) is True.
C5_HasFsetWithLast ==
    call.op = "has_fset_with_last" =>
        /\ (call.b < 1 \/ call.b > Len(pg)) => ~call.val
        /\ Len(pg) = 0 => ~call.val
        /\ (1 <= call.b /\ call.b <= Len(pg)) =>
               call.val = SomeSubsetOfSizeWithLast(call.f, call.b, pg)
        /\ call.val => has_fset(call.f, call.b, pg)

C5_Witness ==
    /\ call.op = "has_fset_with_last"
    /\ call.f = make_k_sparse_func(1)
    /\ Len(pg) = 4
    /\ call.b = 3
    /\ ~call.val
    /\ has_fset(call.f, call.b, pg)

\* the predicate the library pairs f with in a search
Partner(f) ==
    CASE f.name = "is_independent"     -> IsCliqueFunc
      [] f.name = "is_clique"          -> IsIndependentFunc
      [] f.name = "is_k_divided"       -> make_k_divided_compl_func(f.k)
      [] f.name = "is_k_divided_compl" -> make_k_divided_func(f.k)
      [] f.name = "is_k_sparse"        -> make_k_sparse_compl_func(f.k)
      [] f.name = "is_k_sparse_compl"  -> make_k_sparse_func(f.k)

\* C6: when the graph a candidate was built from has no f-set of order b
\* (f induced-hereditary), has_fset and has_fset_with_last agree on the
\* candidate; so a candidate built from a counterexample graph (for f, the
\* predicate the library pairs with f, and any two sizes) passes the
\* engine's filter iff it is a counterexample graph by the full test.
C6_NoFalseNegatives ==
    (call.op = "has_fset_with_last" /\ Len(pg) >= 1) =>
        /\ ~has_fset(call.f, call.b, parent) =>
               call.val = has_fset(call.f, call.b, pg)
        /\ \A b \in 0..(MaxN + 1) :
               LET f == Partner(call.f) IN
               IsCounterexampleFor(call.f, f, call.b, b, parent) =>
                   (survives(call.f, f, call.b, b, pg)
                       <=> IsCounterexampleFor(call.f, f, call.b, b, pg))

C6_Witness ==
    /\ call.op = "has_fset_with_last"
    /\ Len(pg) = 4
    /\ call.f = make_k_divided_compl_func(2)
    /\ call.b = 3
    /\ ~has_fset(call.f, call.b, parent)
    /\ call.val

\* the vertices of S joined to v by a path inside S
RECURSIVE Grow(_, _, _)
Grow(g, S, C) ==
    LET D == C \cup {y \in S : \E x \in C : Edge(g, x, y)}
    IN  IF D = C THEN C ELSE Grow(g, S, D)

ComponentOf(g, S, v) == Grow(g, S, {v})

\* C7: for k >= 1 the k-divided predicate is true of (g, s) iff every
\* connected component of the subgraph induced by s has at most k vertices
\* (so it is true of the empty set).
C7_KDivided ==
    (call.op = "predicate" /\ call.f.name = "is_k_divided") =>
        call.val = (\A v \in Items(call.s) :
                        Cardinality(ComponentOf(pg, Items(call.s), v)) <= call.f.k)

C7_Witness ==
    /\ call.op = "predicate"
    /\ call.f = make_k_divided_func(2)
    /\ Len(call.s) = 4
    /\ ~call.val
    /\ \A v \in Items(call.s) :
           Cardinality(ComponentOf(pg, Items(call.s), v)) <= 3

\* C8: for k >= 0 the k-sparse predicate is true of (g, s) iff every vertex
\* of s has at most k neighbours in s (so it is true of the empty set).
C8_KSparse ==
    (call.op = "predicate" /\ call.f.name = "is_k_sparse") =>
        call.val = (\A v \in Items(call.s) :
                        Cardinality({u \in Items(call.s) : Edge(pg, v, u)})
                            <= call.f.k)

C8_Witness ==
    /\ call.op = "predicate"
    /\ call.f = make_k_sparse_func(1)
    /\ Len(call.s) = 3
    /\ Len(pg) = 4
    /\ call.val
    /\ \E u, v \in Items(call.s) : Edge(pg, u, v)
    /\ Len(pg[call.s[1] + 1]) = 2

\* the complement of g: the same vertices, u and v adjacent iff they are
\* distinct and not adjacent in g
Complement(g) ==
    [i \in 1..Len(g) |->
        SortedSeq({u \in Range(Len(g)) : u # i - 1 /\ ~Edge(g, i - 1, u)})]

\* the predicate a complement predicate is the complement variant of
Counterpart(f) ==
    CASE f.name = "is_k_divided_compl" -> make_k_divided_func(f.k)
      [] f.name = "is_k_sparse_compl"  -> make_k_sparse_func(f.k)
      [] f.name = "is_clique"          -> IsIndependentFunc

ComplementPredicates == {"is_k_divided_compl", "is_k_sparse_compl", "is_clique"}

\* C9: each complement predicate has on (g, s) the value its counterpart has
\* on (complement of g, s): k-divided-complement and k-divided, k-sparse-
\* complement and k-sparse, clique and independent set.
C9_ComplementVariants ==
    (call.op = "predicate" /\ call.f.name \in ComplementPredicates) =>
        call.val = Apply(Counterpart(call.f), Complement(pg), call.s)

C9_Witness ==
    /\ call.op = "predicate"
    /\ call.f = make_k_sparse_compl_func(1)
    /\ Len(pg) = 4
    /\ Len(call.s) = 3
    /\ call.val
    /\ ~Apply(make_k_sparse_func(1), pg, call.s)

-----------------------------------------------------------------------------
(* Progress lines, checked under Spec *)

\* the list extremals computes for order m
RECURSIVE LevelList(_, _, _, _, _)
LevelList(pf1, pf2, pb1, pb2, m) ==
    IF m = 0
    THEN _counterexamples_zero(pf1, pf2, pb1, pb2)
    ELSE LET old == LevelList(pf1, pf2, pb1, pb2, m - 1)
         IN  IF old = <<>> THEN <<>>
             ELSE _counterexamples_up(pf1, pf2, pb1, pb2, m, old)

\* the lines printed after the header
ProgressLines == Tail(out)

\* C11: with printflag true the output is the header followed by exactly
\* one line (order, number of graphs in the list) for every order computed
\* so far, the orders being 0, 1, 2, ... without a gap; every line but the
\* last has a positive number, a search that goes on has printed positive
\* numbers only, and a search that has returned n has (n, 0) as its last
\* line and nothing after it.  For independent set / clique with sizes
\* (2, 2) the lines are (0, 1), (1, 1), (2, 0).  The number and the graphs
\* returned are those of the computation itself, in which printflag has
\* no part.
C11_ProgressLines ==
    Started =>
        /\ printflag =>
               /\ out # <<>> /\ out[1] = Header
               /\ Len(ProgressLines) = CurLevel + 1
               /\ \A i \in 1..Len(ProgressLines) :
                      /\ ProgressLines[i][1] = i - 1
                      /\ ProgressLines[i][2] =
                             Len(LevelList(f1, f2, b1, b2, i - 1))
                      /\ i < Len(ProgressLines) => ProgressLines[i][2] > 0
               /\ pc = "loop" => ProgressLines[Len(ProgressLines)][2] > 0
               /\ pc = "done" =>
                      ProgressLines[Len(ProgressLines)] = <<result[1], 0>>
               /\ (entry = "gen" /\ b1 = 2 /\ b2 = 2 /\ pc = "done") =>
                      ProgressLines = <<<<0, 1>>, <<1, 1>>, <<2, 0>>>>
        /\ pc = "done" =>
               /\ result[1] = n
               /\ LevelList(f1, f2, b1, b2, n) = <<>>
               /\ n = 0 => result[2] = <<>>
               /\ n > 0 => result[2] = LevelList(f1, f2, b1, b2, n - 1)

C11_Witness ==
    /\ pc = "done"
    /\ printflag
    /\ entry = "gen" /\ b1 = 2 /\ b2 = 2
    /\ out = <<Header, <<0, 1>>, <<1, 1>>, <<2, 0>>>>

-----------------------------------------------------------------------------
(* Contract violations, checked under Spec *)

\* the call violates the contract of its entry point: a negative size, or
\* k below the least admissible value of the pair of predicates
ContractViolated ==
    /\ entry # "none"
    /\ \/ args.a < 0
       \/ args.b < 0
       \/ entry = "divided" /\ args.k < 1
       \/ entry = "sparse" /\ args.k < 0

\* C12: a call that violates the contract ends in a failure, through
\* find_extremals of dividedramsey and of sparseramsey and through
\* extremals of genramsey alike: no list is computed for any order, no
\* line is printed, and no (number, graphs) is returned.
C12_FailFast ==
    ContractViolated =>
        /\ pc = "failed"
        /\ gs = <<>> /\ oldgs = <<>>
        /\ out = <<>>
        /\ result = <<>>

\* the part of C12 that the code has: the assertions of the two
\* find_extremals end a violating call before extremals is entered
FindExtremalsFailFast ==
    (ContractViolated /\ entry \in {"divided", "sparse"}) =>
        /\ pc = "failed"
        /\ gs = <<>> /\ oldgs = <<>>
        /\ out = <<>>
        /\ result = <<>>

\* extremals called with a negative size returns a number and graphs
NegativeSizeReturns ==
    /\ entry = "gen"
    /\ args.a < 0
    /\ pc = "done"
    /\ result = <<1, << <<>> >> >>

-----------------------------------------------------------------------------
(* The step from one order to the next, checked under Spec *)

\* the list xs holds exactly one graph of every isomorphism class of the
\* counterexample graphs of order m, over all graphs on the vertices 0..m-1
OnePerClass(xs, m) ==
    /\ \A i \in 1..Len(xs) : Len(xs[i]) = m /\ IsCounterexample(xs[i])
    /\ \A i, j \in 1..Len(xs) : i # j => ~SameUpToRelabelling(xs[i], xs[j])
    /\ \A E \in SUBSET EdgeSlots(m) :
           LET g == GraphOfEdges(m, E)
           IN  IsCounterexample(g) =>
                   \E i \in 1..Len(xs) : SameUpToRelabelling(g, xs[i])

\* the counterexample graphs of order 4 for sizes (3, 3) of the doctest
Ce4_0_3_3 ==
    << <<<<2>>, <<3>>, <<0>>, <<1>>>>,
       <<<<1, 2>>, <<0, 3>>, <<0>>, <<1>>>>,
       <<<<1, 2>>, <<0, 3>>, <<0, 3>>, <<1, 2>>>> >>

\* C13: in a search with nonnegative sizes the list of every order is
\* what _counterexamples_up yields from the list of the order before, and
\* it holds counterexample graphs of that order only, no two of them
\* isomorphic, and a graph isomorphic to every counterexample graph of
\* that order; so the list is exact after every step, the one for order 0
\* included.  From the three graphs of order 4 for sizes (3, 3) the step
\* yields one graph, isomorphic to the 5-cycle, and from it the empty list.
C13_LevelExact ==
    (Started /\ b1 >= 0 /\ b2 >= 0) =>
        /\ OnePerClass(gs, CurLevel)
        /\ CurLevel >= 1 =>
               /\ OnePerClass(oldgs, CurLevel - 1)
               /\ gs = _counterexamples_up(f1, f2, b1, b2, CurLevel, oldgs)
        /\ (entry = "gen" /\ b1 = 3 /\ b2 = 3 /\ CurLevel = 5) =>
               LET ce5 == _counterexamples_up(f1, f2, 3, 3, 5, Ce4_0_3_3)
               IN  /\ Len(ce5) = 1
                   /\ SameUpToRelabelling(ce5[1], C5Graph)
                   /\ _counterexamples_up(f1, f2, 3, 3, 6, ce5) = <<>>

C13_Witness ==
    /\ pc = "loop"
    /\ entry = "divided" /\ f1.k = 1
    /\ b1 = 3 /\ b2 = 3
    /\ CurLevel = 4
    /\ Len(gs) = 3 /\ Len(oldgs) = 2

-----------------------------------------------------------------------------
(* Graphs produced earlier are left alone, checked under SpecRefs *)

\* the graphs at the addresses refs, as they are now
Now(refs) == [i \in 1..Len(refs) |-> Deref(heap, refs[i])]

\* C14: while the candidates of an order are built and tested, every
\* graph of the list they are built from is what it was when its own
\* order was completed (as many vertices, the same adjacency lists), and
\* so is every graph yielded so far; every candidate is therefore the
\* extension of the parent as it was, and the previous list extremals
\* returns is the list as it was when its order was completed.
C14_ParentsUnchanged ==
    Started =>
        /\ pc = "loop" => Now(oldrefs) = gs
        /\ Now(newrefs) = newvals
        /\ cand.p > 0 =>
               /\ Len(Deref(heap, oldrefs[cand.p])) = n - 1
               /\ Deref(heap, cand.g) = candidate(gs[cand.p], cand.vset, n)
        /\ (CurLevel >= 1 /\ cand.p = 0) =>
               gs = _counterexamples_up(f1, f2, b1, b2, CurLevel, oldgs)
        /\ pc = "done" =>
               /\ Now(oldrefs) = oldgs
               /\ result[2] = oldgs

\* the second parent of a list is being extended: the candidate built last
\* has new adjacency lists where the parent's would have grown, and a graph
\* yielded before it shares an adjacency list with a graph of the list old
C14_Witness ==
    /\ pc = "loop"
    /\ Len(oldrefs) >= 2
    /\ cand.p = 2
    /\ cand.vset # <<>>
    /\ \E v \in 1..(n - 1) : cand.g[v] # oldrefs[2][v]
    /\ \E i \in 1..Len(newrefs) : \E v \in 1..(n - 1) :
           newrefs[i][v] = oldrefs[1][v]
    /\ Now(oldrefs) = gs

-----------------------------------------------------------------------------
(* The form of the graphs, checked under SpecRefs *)

\* g is a graph of order m in the representation of isograph: m adjacency
\* lists, each ascending without a repeated entry, of vertices 0..m-1
\* other than its own, and u is in the list of v when v is in that of u
WellFormed(g, m) ==
    /\ Len(g) = m
    /\ \A v \in Range(m) :
           /\ \A i \in 1..Len(g[v + 1]) : g[v + 1][i] \in Range(m)
           /\ \A i, j \in 1..Len(g[v + 1]) : i < j => g[v + 1][i] < g[v + 1][j]
           /\ ~InSeq(v, g[v + 1])
           /\ \A u \in Range(m) : InSeq(u, g[v + 1]) <=> InSeq(v, g[u + 1])

\* the subgraph of g induced by the vertices 0 .. m-1
InducedOnFirst(g, m) ==
    [v \in 1..m |-> SelectSeq(g[v], LAMBDA u : u < m)]

\* C15: every graph of the list of an order m, the one being made
\* included, is a well-formed graph of order m; every candidate built for
\* order n from a parent and a set vset is a well-formed graph of order n
\* whose vertex n-1 is adjacent to the vertices of vset and no other, and
\* whose subgraph induced by 0 .. n-2 is the parent.
C15_WellFormedGraphs ==
    Started =>
        /\ \A i \in 1..Len(gs) : WellFormed(gs[i], CurLevel)
        /\ \A i \in 1..Len(oldgs) : WellFormed(oldgs[i], CurLevel - 1)
        /\ \A i \in 1..Len(newrefs) : WellFormed(Deref(heap, newrefs[i]), n)
        /\ pc = "done" =>
               \A i \in 1..Len(result[2]) : WellFormed(result[2][i], n - 1)
        /\ cand.p > 0 =>
               LET c == Deref(heap, cand.g)
               IN  /\ WellFormed(c, n)
                   /\ c[n] = cand.vset
                   /\ \A v \in Range(n) :
                          Edge(c, n - 1, v) <=> InSeq(v, cand.vset)
                   /\ InducedOnFirst(c, n - 1) = Deref(heap, oldrefs[cand.p])

\* a candidate with some but not all possible edges at its last vertex,
\* built from a parent that has an edge
C15_Witness ==
    /\ pc = "loop"
    /\ cand.p > 0
    /\ n = 5
    /\ Len(cand.vset) = 2
    /\ \E v \in 1..(n - 1) : heap[oldrefs[cand.p][v]] # <<>>
    /\ WellFormed(Deref(heap, cand.g), n)

-----------------------------------------------------------------------------
(* The predicates look at the induced subgraph only, checked under SpecBench *)

\* the edges of g between members of the set S
EdgesWithin(g, S) ==
    {e \in EdgeSlots(Len(g)) : e \subseteq S /\ \A u, v \in e : u # v => Edge(g, u, v)}

\* the least graph that has the vertices of S and, between them, the
\* adjacencies of g: its order is one more than the greatest member of S,
\* and it has no edge but those of g between members of S
LeastAgreeing(g, S) ==
    LET m == IF S = {} THEN 0 ELSE (CHOOSE x \in S : \A y \in S : y <= x) + 1
    IN  GraphOfEdges(m, EdgesWithin(g, S))

\* C16: the value of each of the six predicates on a graph g and a vertex
\* set s is its value on the least graph with the same adjacencies between
\* the members of s.  Two graphs g and h, of any orders, with the same
\* adjacencies between the members of s have the same least graph, so the
\* predicate has the same value on both.  In particular the value is that
\* on the graph g was made from by adding a vertex with any edges, when s
\* has none but vertices of that graph.
C16_InducedHereditary ==
    call.op = "predicate" =>
        LET S == Items(call.s)
        IN  /\ Apply(call.f, LeastAgreeing(pg, S), call.s) = call.val
            /\ (Len(pg) >= 1 /\ S \subseteq Range(Len(pg) - 1)) =>
                   /\ LeastAgreeing(parent, S) = LeastAgreeing(pg, S)
                   /\ Apply(call.f, parent, call.s) = call.val

\* a predicate that holds on three vertices of a graph of order 4 whose
\* fourth vertex has a neighbour among them
C16_Witness ==
    /\ call.op = "predicate"
    /\ call.f = make_k_sparse_func(1)
    /\ Len(pg) = 4
    /\ call.s = <<0, 1, 2>>
    /\ call.val
    /\ pg[4] # <<>>
    /\ pg[1] # <<>>

-----------------------------------------------------------------------------
(* The search ends, checked under FairSpec *)

\* a search through find_extremals of dividedramsey or of sparseramsey
\* (k is admissible, or the call has failed) with both sizes in 0 .. 3
SearchInRange ==
    /\ Started
    /\ entry \in {"divided", "sparse"}
    /\ b1 \in 0..3
    /\ b2 \in 0..3

\* C17: every search with the k-divided or the k-sparse pair, k
\* admissible, and sizes in 0 .. 3 comes to a list that is empty and
\* returns.  A search has returned exactly when the list computed last is
\* empty: it never returns with that list nonempty and never goes on with
\* it empty; the number returned is the first order whose list is empty,
\* and nothing is computed after the return.
C17_Termination ==
    /\ [](SearchInRange => <>(pc = "done"))
    /\ [](Started => (pc = "done" <=> gs = <<>>))
    /\ [](pc = "done" =>
              /\ result[1] = n
              /\ LevelList(f1, f2, b1, b2, n) = <<>>
              /\ \A m \in 0..(n - 1) : LevelList(f1, f2, b1, b2, m) # <<>>)
    /\ [][pc # "done"]_vars

\* a search with k = 2 that has returned after four lists
C17_Witness ==
    /\ SearchInRange
    /\ entry = "divided" /\ f1.k = 2
    /\ b1 = 3 /\ b2 = 3
    /\ pc = "done"
    /\ result[1] = 3
    /\ gs = <<>>

=============================================================================
